---- MODULE Spec2Model ----
(***************************************************************************)
(* The channel state store of channeldb (db.go): the database file, its    *)
(* schema version and migrations, the open-channel tree, the closed-channel*)
(* bucket and the link-node (peer) bucket.                                 *)
(*                                                                         *)
(* A bbolt transaction is modelled as a function from the database         *)
(* contents to [db, err]: Update commits db when err is Nil and keeps the  *)
(* old contents otherwise.                                                 *)
(***************************************************************************)
EXTENDS Integers, Sequences, FiniteSets, TLC

\* ------------------------------------------------------------------ bounds
\* Highest chain height passed to AbandonChannel (heights 1..MaxHeight).
MaxHeight == 1
\* Highest schema version a pre-existing file may carry (one above latest).
MaxSeedVersion == 12
\* Number of remote peers (compressed identity keys 1..NumPeers).
NumPeers == 2
\* Number of funding outpoints (1..NumOutPoints).
NumOutPoints == 3
MaxTime == 2

Peers == 1..NumPeers
OutPoints == 1..NumOutPoints

\* A funding outpoint pays into a channel with one counterparty: outpoints 1
\* and 2 fund channels with peer 1, outpoint 3 one with peer 2, and so on.
PeerOf(op) == (((op - 1) \div 2) % NumPeers) + 1

\* ------------------------------------------------------------ error values
Nil == "nil"
ErrMetaNotFound == "ErrMetaNotFound"
ErrDBReversion == "ErrDBReversion"
ErrBucketNotFound == "ErrBucketNotFound"
ErrBucketExists == "ErrBucketExists"
ErrNoActiveChannels == "ErrNoActiveChannels"
ErrNodeBucketNotCreated == "node bucket not created"
ErrCreateChannelDB == "unable to create new channeldb"
ErrNoClosedChannel == "no closed channel found"
ErrLinkNodesNotFound == "ErrLinkNodesNotFound"
ErrIO == "io error"
ErrNodeNotFound == "ErrNodeNotFound"
ErrGraphNotFound == "ErrGraphNotFound"
ErrGraphNodeNotFound == "ErrGraphNodeNotFound"
ErrSourceNodeNotSet == "ErrSourceNodeNotSet"
ErrEdgeAlreadyExist == "ErrEdgeAlreadyExist"
ErrEdgeNotFound == "ErrEdgeNotFound"
ErrChannelNotFound == "ErrChannelNotFound"
ErrClosedChannelNotFound == "unable to find closed channel summary"

ErrMigration == "migration failed"

\* ------------------------------------------------------------ bucket names
openChannelBucket == "open-chan-bucket"
closedChannelBucket == "closed-channel-bucket"
forwardingLogBucket == "fwd-log-bucket"
fwdPackagesKey == "fwd-packages"
invoiceBucket == "invoice-bucket"
nodeInfoBucket == "node-info-bucket"
nodeBucket == "node-bucket"
aliasIndexBucket == "alias-index-bucket"
nodeUpdateIndexBucket == "node-update-index-bucket"
edgeBucket == "edge-bucket"
edgeIndexBucket == "edge-index-bucket"
edgeUpdateIndexBucket == "edge-update-index-bucket"
channelPointBucket == "chan-point-bucket"
zombieBucket == "zombie-bucket"
graphMetaBucket == "graph-meta-bucket"
pruneLogBucket == "prune-log-bucket"
metaBucket == "meta-bucket"

\* The root of the bucket tree, parent of the top-level buckets.
Root == "root"

\* The top-level buckets the schema enumerates besides the meta bucket.
SchemaTopLevel ==
    { openChannelBucket, closedChannelBucket, forwardingLogBucket,
      fwdPackagesKey, invoiceBucket, nodeInfoBucket, nodeBucket, edgeBucket,
      graphMetaBucket }

\* The sequence <<1, ..., n>>.
RECURSIVE Iota(_)
Iota(n) == IF n <= 0 THEN <<>> ELSE Append(Iota(n - 1), n)

\* ------------------------------------------------------------- dbVersions
\* Version 0 carries no migration; versions 1..11 each carry one, named here
\* by its version number.
NoMigration == 0

dbVersions ==
    [ i \in 1..12 |->
        [ number |-> i - 1,
          migration |-> IF i = 1 THEN NoMigration ELSE i - 1 ] ]

getLatestDBVersion(versions) == versions[Len(versions)].number

LatestVersion == getLatestDBVersion(dbVersions)

\* ------------------------------------------------------- database contents
\* version: the meta record, NoMeta when the meta bucket holds none.
NoMeta == -1

\* sourceNode: the key of the graph's source node, NoSource when none is set.
NoSource == -1

\* The contents of a bolt file that holds no bucket at all.
EmptyDb ==
    [ buckets    |-> {},      \* <<parent, name>> of every existing bucket
      version    |-> NoMeta,
      migrated   |-> <<>>,    \* migrations whose writes the buckets carry
      openChans  |-> {},      \* records of the open-channel tree
      closedChans |-> {},     \* close summaries of the closed-channel bucket
      linkNodes  |-> {},      \* identity keys with a link-node record
      graphNodes |-> {},      \* keys with a graph-node record (node bucket)
      sourceNode |-> NoSource,
      edges      |-> {},      \* edge infos of the edge index
      policies   |-> {} ]     \* edge policies, by channel id and direction

VARIABLES
    fileExists,   \* channel.db exists on disk
    file,         \* committed contents of channel.db
    dbOpen,       \* a DB returned by Open is in use (holds the file lock)
    leaked,       \* a bolt handle was opened and never closed
    last,         \* the last operation: its name, error and observations
    rejectCache,  \* channel ids held by the graph's reject cache
    chanCache,    \* channel ids held by the graph's channel cache
    scan,         \* a FetchAllChannels call between two of its transactions
    restore       \* a RestoreChannelShells call between two of its steps

vars ==
    <<fileExists, file, dbOpen, leaked, last, rejectCache, chanCache, scan,
      restore>>

\* -------------------------------------------------------- bbolt primitives
HasBucket(db, parent, name) == <<parent, name>> \in db.buckets

\* tx.CreateBucket / bucket.CreateBucket
CreateBucket(db, parent, name) ==
    IF HasBucket(db, parent, name)
    THEN [db |-> db, err |-> ErrBucketExists]
    ELSE [db |-> [db EXCEPT !.buckets = @ \cup {<<parent, name>>}],
          err |-> Nil]

\* tx.CreateBucketIfNotExists
CreateBucketIfNotExists(db, parent, name) ==
    [db EXCEPT !.buckets = @ \cup {<<parent, name>>}]

\* The records a top-level bucket holds go with the bucket.
DropContents(db, name) ==
    [db EXCEPT
        !.openChans = IF name = openChannelBucket THEN {} ELSE @,
        !.closedChans = IF name = closedChannelBucket THEN {} ELSE @,
        !.linkNodes = IF name = nodeInfoBucket THEN {} ELSE @,
        !.graphNodes = IF name = nodeBucket THEN {} ELSE @,
        !.sourceNode = IF name = nodeBucket THEN NoSource ELSE @,
        !.edges = IF name = edgeBucket THEN {} ELSE @,
        !.policies = IF name = edgeBucket THEN {} ELSE @,
        !.version = IF name = metaBucket THEN NoMeta ELSE @]

\* tx.DeleteBucket: removes a top-level bucket with its sub-buckets and keys.
DeleteBucket(db, name) ==
    IF ~HasBucket(db, Root, name)
    THEN [db |-> db, err |-> ErrBucketNotFound]
    ELSE [db |-> [DropContents(db, name) EXCEPT
                    !.buckets = {b \in @ : b[1] # name /\ b # <<Root, name>>}],
          err |-> Nil]

\* Mutant: the writes of a transaction that returned an error are kept.
Update_NoRollback(db, res) == res.db

\* db.Update: the transaction's writes are committed only when it returns nil.
Update(db, res) == IF res.err = Nil THEN res.db ELSE db

\* ------------------------------------------------------------------- meta
\* putMeta: stores the version under the meta bucket, creating the bucket
\* when it is missing.
putMeta(meta, db) ==
    [db |-> [CreateBucketIfNotExists(db, Root, metaBucket) EXCEPT
                !.version = meta.DbVersionNumber],
     err |-> Nil]

\* FetchMeta: reads the version; ErrMetaNotFound when there is no record.
FetchMeta(db) ==
    IF ~HasBucket(db, Root, metaBucket) \/ db.version = NoMeta
    THEN [meta |-> [DbVersionNumber |-> 0], err |-> ErrMetaNotFound]
    ELSE [meta |-> [DbVersionNumber |-> db.version], err |-> Nil]

\* ---------------------------------------------------------- createChannelDB
\* The buckets createChannelDB creates, in the order of its CreateBucket calls.
CreateSteps ==
    << <<Root, openChannelBucket>>,
       <<Root, closedChannelBucket>>,
       <<Root, forwardingLogBucket>>,
       <<Root, fwdPackagesKey>>,
       <<Root, invoiceBucket>>,
       <<Root, nodeInfoBucket>>,
       <<Root, nodeBucket>>,
       <<nodeBucket, aliasIndexBucket>>,
       <<nodeBucket, nodeUpdateIndexBucket>>,
       <<Root, edgeBucket>>,
       <<edgeBucket, edgeIndexBucket>>,
       <<edgeBucket, edgeUpdateIndexBucket>>,
       <<edgeBucket, channelPointBucket>>,
       <<edgeBucket, zombieBucket>>,
       <<Root, graphMetaBucket>>,
       <<graphMetaBucket, pruneLogBucket>>,
       <<Root, metaBucket>> >>

\* Where the creating transaction can be made to fail: 0 is no failure, i the
\* i-th CreateBucket call, Len(CreateSteps) + 1 the final putMeta.
CreateFaults == 0..(Len(CreateSteps) + 1)

RECURSIVE createBuckets(_, _, _)
createBuckets(db, i, failAt) ==
    IF i > Len(CreateSteps) THEN [db |-> db, err |-> Nil]
    ELSE IF i = failAt THEN [db |-> db, err |-> ErrIO]
    ELSE LET r == CreateBucket(db, CreateSteps[i][1], CreateSteps[i][2])
         IN  IF r.err # Nil THEN r ELSE createBuckets(r.db, i + 1, failAt)

\* Mutant: the transaction creates the buckets and writes no meta record.
createChannelDBTx_NoMeta(db, failAt) ==
    LET r == createBuckets(db, 1, failAt)
    IN  IF r.err # Nil THEN r
        ELSE IF failAt = Len(CreateSteps) + 1 THEN [db |-> r.db, err |-> ErrIO]
        ELSE r

\* The body of the transaction of createChannelDB.
createChannelDBTx(db, failAt) ==
    LET r == createBuckets(db, 1, failAt)
    IN  IF r.err # Nil THEN r
        ELSE IF failAt = Len(CreateSteps) + 1 THEN [db |-> r.db, err |-> ErrIO]
        ELSE putMeta([DbVersionNumber |-> getLatestDBVersion(dbVersions)], r.db)

\* createChannelDB: bbolt.Open creates the (empty) file, the buckets and the
\* meta record are written in one transaction; the handle is closed only on
\* the path where the transaction succeeded.
createChannelDB(failAt) ==
    LET res == createChannelDBTx(EmptyDb, failAt)
    IN  IF res.err # Nil
        THEN [db |-> Update(EmptyDb, res), err |-> ErrCreateChannelDB,
              handleOpen |-> TRUE]
        ELSE [db |-> Update(EmptyDb, res), err |-> Nil, handleOpen |-> FALSE]

\* -------------------------------------------------------------- migrations
\* One registered migration run on the transaction: it rewrites buckets, and
\* the migration chosen to fail returns an error after its writes.
RunMigration(m, db, failAt) ==
    [db |-> [db EXCEPT !.migrated = Append(@, m)],
     err |-> IF m = failAt THEN ErrMigration ELSE Nil]

\* The migration that can be made to fail: 0 is none.
MigrationFaults == 0..getLatestDBVersion(dbVersions)

\* Mutant: selects the stored version's own migration as well (>= for >).
getMigrationsToApply_Inclusive(versions, version) ==
    LET sel == SelectSeq(versions, LAMBDA v : v.number >= version)
    IN  [migrations |-> [i \in 1..Len(sel) |-> sel[i].migration],
         migrationVersions |-> [i \in 1..Len(sel) |-> sel[i].number]]

\* getMigrationsToApply: the migrations of the versions above `version`, in
\* the order of the list.
getMigrationsToApply(versions, version) ==
    LET sel == SelectSeq(versions, LAMBDA v : v.number > version)
    IN  [migrations |-> [i \in 1..Len(sel) |-> sel[i].migration],
         migrationVersions |-> [i \in 1..Len(sel) |-> sel[i].number]]

\* The loop of syncVersions over the selected migrations.
RECURSIVE applyMigrations(_, _, _, _, _)
applyMigrations(db, migrations, i, failAt, invoked) ==
    IF i > Len(migrations) THEN [db |-> db, err |-> Nil, invoked |-> invoked]
    ELSE IF migrations[i] = NoMigration
    THEN applyMigrations(db, migrations, i + 1, failAt, invoked)
    ELSE LET r == RunMigration(migrations[i], db, failAt)
         IN  IF r.err # Nil
             THEN [db |-> r.db, err |-> r.err,
                   invoked |-> Append(invoked, migrations[i])]
             ELSE applyMigrations(r.db, migrations, i + 1, failAt,
                                  Append(invoked, migrations[i]))

\* The body of the transaction of syncVersions.
syncVersionsTx(db, migrations, latestVersion, failAt) ==
    LET r == applyMigrations(db, migrations, 1, failAt, <<>>)
    IN  IF r.err # Nil THEN r
        ELSE LET p == putMeta([DbVersionNumber |-> latestVersion], r.db)
             IN  [db |-> p.db, err |-> p.err, invoked |-> r.invoked]

\* Mutant: the migrations are not run inside one transaction, so the writes
\* made before a failure stay.
syncVersions_NoTx(db, versions, failAt) ==
    LET fm == FetchMeta(db)
        meta == fm.meta
        latestVersion == getLatestDBVersion(versions)
    IN  IF meta.DbVersionNumber > latestVersion
        THEN [db |-> db, err |-> ErrDBReversion, invoked |-> <<>>]
        ELSE IF meta.DbVersionNumber = latestVersion
        THEN [db |-> db, err |-> Nil, invoked |-> <<>>]
        ELSE LET migs == getMigrationsToApply(versions, meta.DbVersionNumber)
                 res == syncVersionsTx(db, migs.migrations, latestVersion,
                                       failAt)
             IN  [db |-> res.db, err |-> res.err, invoked |-> res.invoked]

\* Mutant: the reversion case is missing.
syncVersions_NoReversionCheck(db, versions, failAt) ==
    LET fm == FetchMeta(db)
        meta == fm.meta
        latestVersion == getLatestDBVersion(versions)
    IN  IF meta.DbVersionNumber = latestVersion
        THEN [db |-> db, err |-> Nil, invoked |-> <<>>]
        ELSE LET migs == getMigrationsToApply(versions, meta.DbVersionNumber)
                 res == syncVersionsTx(db, migs.migrations, latestVersion,
                                       failAt)
             IN  [db |-> Update(db, res), err |-> res.err,
                  invoked |-> res.invoked]

\* Mutant: the reversion case compares with the number of versions instead
\* of the latest version number.
syncVersions_LenCheck(db, versions, failAt) ==
    LET fm == FetchMeta(db)
        meta == fm.meta
        latestVersion == getLatestDBVersion(versions)
    IN  IF meta.DbVersionNumber > Len(versions)
        THEN [db |-> db, err |-> ErrDBReversion, invoked |-> <<>>]
        ELSE IF meta.DbVersionNumber = latestVersion
        THEN [db |-> db, err |-> Nil, invoked |-> <<>>]
        ELSE LET migs == getMigrationsToApply(versions, meta.DbVersionNumber)
                 res == syncVersionsTx(db, migs.migrations, latestVersion,
                                       failAt)
             IN  [db |-> Update(db, res), err |-> res.err,
                  invoked |-> res.invoked]

\* Mutant: a missing meta record is taken for the latest version, which is
\* written without running a migration.
syncVersions_NotFoundIsLatest(db, versions, failAt) ==
    LET fm == FetchMeta(db)
        latestVersion == getLatestDBVersion(versions)
        meta == IF fm.err = ErrMetaNotFound
                THEN [DbVersionNumber |-> latestVersion] ELSE fm.meta
    IN  IF fm.err = ErrMetaNotFound
        THEN [db |-> putMeta(meta, db).db, err |-> Nil, invoked |-> <<>>]
        ELSE IF meta.DbVersionNumber > latestVersion
        THEN [db |-> db, err |-> ErrDBReversion, invoked |-> <<>>]
        ELSE IF meta.DbVersionNumber = latestVersion
        THEN [db |-> db, err |-> Nil, invoked |-> <<>>]
        ELSE LET migs == getMigrationsToApply(versions, meta.DbVersionNumber)
                 res == syncVersionsTx(db, migs.migrations, latestVersion,
                                       failAt)
             IN  [db |-> Update(db, res), err |-> res.err,
                  invoked |-> res.invoked]

\* syncVersions: [db, err, invoked] with db the committed contents.
syncVersions(db, versions, failAt) ==
    LET fm == FetchMeta(db)
        meta == fm.meta
        latestVersion == getLatestDBVersion(versions)
    IN  IF fm.err # Nil /\ fm.err # ErrMetaNotFound
        THEN [db |-> db, err |-> fm.err, invoked |-> <<>>]
        ELSE IF meta.DbVersionNumber > latestVersion
        THEN [db |-> db, err |-> ErrDBReversion, invoked |-> <<>>]
        ELSE IF meta.DbVersionNumber = latestVersion
        THEN [db |-> db, err |-> Nil, invoked |-> <<>>]
        ELSE LET migs == getMigrationsToApply(versions, meta.DbVersionNumber)
                 res == syncVersionsTx(db, migs.migrations, latestVersion,
                                       failAt)
             IN  [db |-> Update(db, res), err |-> res.err,
                  invoked |-> res.invoked]

\* ---------------------------------------------------------------- channels
\* chanStatus is a set of status bits; ChanStatusDefault is no bit set.
ChanStatusDefault == {}
ChanStatusCommitBroadcasted == "CommitBroadcasted"
ChanStatusRestored == "Restored"

\* Close types a caller of CloseChannel passes in this model.
CooperativeLocal == "CooperativeLocal"
LocalForceClose == "LocalForceClose"
Abandoned == "Abandoned"

\* The channel of the open-channel tree stored under peer / outpoint.
HasChan(db, peer, op) == \E c \in db.openChans : c.peer = peer /\ c.op = op
ChanAt(db, peer, op) == CHOOSE c \in db.openChans : c.peer = peer /\ c.op = op

\* fetchNodeChannels: the channels of one peer, in ascending outpoint order.
RECURSIVE fetchNodeChannels(_, _, _)
fetchNodeChannels(db, peer, op) ==
    IF op > NumOutPoints THEN <<>>
    ELSE (IF HasChan(db, peer, op) THEN <<ChanAt(db, peer, op)>> ELSE <<>>)
         \o fetchNodeChannels(db, peer, op + 1)

\* Mutant: the peer's bucket is never found.
fetchOpenChannels_NoneFound(db, nodeID) == [chans |-> <<>>, err |-> Nil]

\* fetchOpenChannels: all channels stored for nodeID; none when the
\* open-channel bucket or the peer's bucket is missing.
fetchOpenChannels(db, nodeID) ==
    IF ~HasBucket(db, Root, openChannelBucket)
    THEN [chans |-> <<>>, err |-> Nil]
    ELSE [chans |-> fetchNodeChannels(db, nodeID, 1), err |-> Nil]

\* Mutant: the filter looks at the pending flag only.
Matches_PendingOnly(channel, pending, waitingClose) ==
    channel.pending = pending

\* The filter of fetchChannels on one channel.
Matches(channel, pending, waitingClose) ==
    /\ channel.pending = pending
    /\ (channel.status # ChanStatusDefault) = waitingClose

\* The loop of fetchChannels over the keys of the node-info bucket.
RECURSIVE fetchChannelsFrom(_, _, _, _)
fetchChannelsFrom(db, k, pending, waitingClose) ==
    IF k > NumPeers THEN <<>>
    ELSE (IF k \in db.linkNodes
          THEN SelectSeq(fetchNodeChannels(db, k, 1),
                         LAMBDA c : Matches(c, pending, waitingClose))
          ELSE <<>>)
         \o fetchChannelsFrom(db, k + 1, pending, waitingClose)

\* Mutant: an empty result is reported as ErrNoActiveChannels.
fetchChannels_ErrWhenEmpty(db, pending, waitingClose) ==
    IF ~HasBucket(db, Root, openChannelBucket)
    THEN [chans |-> <<>>, err |-> ErrNoActiveChannels]
    ELSE IF ~HasBucket(db, Root, nodeInfoBucket)
    THEN [chans |-> <<>>, err |-> ErrNodeBucketNotCreated]
    ELSE IF fetchChannelsFrom(db, 1, pending, waitingClose) = <<>>
    THEN [chans |-> <<>>, err |-> ErrNoActiveChannels]
    ELSE [chans |-> fetchChannelsFrom(db, 1, pending, waitingClose),
          err |-> Nil]

\* fetchChannels: the channels of every link node that pass the filter; an
\* error when the open-channel bucket or the node-info bucket is missing.
fetchChannels(db, pending, waitingClose) ==
    IF ~HasBucket(db, Root, openChannelBucket)
    THEN [chans |-> <<>>, err |-> ErrNoActiveChannels]
    ELSE IF ~HasBucket(db, Root, nodeInfoBucket)
    THEN [chans |-> <<>>, err |-> ErrNodeBucketNotCreated]
    ELSE [chans |-> fetchChannelsFrom(db, 1, pending, waitingClose),
          err |-> Nil]

FetchAllOpenChannels(db) == fetchChannels(db, FALSE, FALSE)

FetchPendingChannels(db) == fetchChannels(db, TRUE, FALSE)

FetchWaitingCloseChannels(db) ==
    LET waitingClose == fetchChannels(db, FALSE, TRUE)
        pendingWaitingClose == fetchChannels(db, TRUE, TRUE)
    IN  IF waitingClose.err # Nil THEN [chans |-> <<>>, err |-> waitingClose.err]
        ELSE IF pendingWaitingClose.err # Nil
        THEN [chans |-> <<>>, err |-> pendingWaitingClose.err]
        ELSE [chans |-> waitingClose.chans \o pendingWaitingClose.chans,
              err |-> Nil]

\* The (pending, waitingClose) arguments of the fetchChannels calls of
\* FetchAllChannels, in order; each call is a read transaction of its own.
ScanSteps ==
    << <<FALSE, FALSE>>, <<TRUE, FALSE>>, <<FALSE, TRUE>>, <<TRUE, TRUE>> >>

\* FetchAllChannels on one committed state of the database.
FetchAllChannels(db) ==
    LET openChannels == FetchAllOpenChannels(db)
        pendingChannels == FetchPendingChannels(db)
        waitingClose == FetchWaitingCloseChannels(db)
    IN  IF openChannels.err # Nil THEN [chans |-> <<>>, err |-> openChannels.err]
        ELSE IF pendingChannels.err # Nil
        THEN [chans |-> <<>>, err |-> pendingChannels.err]
        ELSE IF waitingClose.err # Nil
        THEN [chans |-> <<>>, err |-> waitingClose.err]
        ELSE [chans |-> openChannels.chans \o pendingChannels.chans
                        \o waitingClose.chans,
              err |-> Nil]

\* --------------------------------------------------------------- link nodes
\* deleteLinkNode: removes the peer's record from the node-info bucket.
deleteLinkNode(db, identity) ==
    IF ~HasBucket(db, Root, nodeInfoBucket)
    THEN [db |-> db, err |-> ErrLinkNodesNotFound]
    ELSE [db |-> [db EXCEPT !.linkNodes = @ \ {identity}], err |-> Nil]

\* Mutant: the link node is deleted without looking at the open channels.
pruneLinkNode_Always(db, remotePub) == deleteLinkNode(db, remotePub)

\* Mutant: the test on the number of open channels is inverted.
pruneLinkNode_Inverted(db, remotePub) ==
    LET openChannels == fetchOpenChannels(db, remotePub)
    IN  IF Len(openChannels.chans) = 0 THEN [db |-> db, err |-> Nil]
        ELSE deleteLinkNode(db, remotePub)

\* pruneLinkNode: deletes the link node when the peer has no open channel.
pruneLinkNode(db, remotePub) ==
    LET openChannels == fetchOpenChannels(db, remotePub)
    IN  IF openChannels.err # Nil THEN [db |-> db, err |-> openChannels.err]
        ELSE IF Len(openChannels.chans) > 0 THEN [db |-> db, err |-> Nil]
        ELSE deleteLinkNode(db, remotePub)

\* ------------------------------------------------------ MarkChanFullyClosed
HasSummary(db, op) == \E s \in db.closedChans : s.op = op
SummaryAt(db, op) == CHOOSE s \in db.closedChans : s.op = op

\* closedChanBucket.Put: one summary per outpoint key.
PutSummary(db, summary) ==
    [db EXCEPT !.closedChans =
        {s \in @ : s.op # summary.op} \cup {summary}]

\* The body of the transaction of MarkChanFullyClosed.
MarkChanFullyClosedTx(db, chanPoint) ==
    LET db1 == CreateBucketIfNotExists(db, Root, closedChannelBucket)
    IN  IF ~HasSummary(db1, chanPoint)
        THEN [db |-> db1, err |-> ErrNoClosedChannel]
        ELSE LET chanSummary == [SummaryAt(db1, chanPoint) EXCEPT
                                    !.pending = FALSE]
                 db2 == PutSummary(db1, chanSummary)
             IN  pruneLinkNode(db2, chanSummary.peer)

\* --------------------------------------------------------------------- Wipe
\* The buckets Wipe deletes, in the order of its DeleteBucket calls.
WipeSteps ==
    << openChannelBucket, closedChannelBucket, invoiceBucket, nodeInfoBucket,
       nodeBucket, edgeBucket, edgeIndexBucket, graphMetaBucket >>

RECURSIVE wipeBuckets(_, _)
wipeBuckets(db, i) ==
    IF i > Len(WipeSteps) THEN [db |-> db, err |-> Nil]
    ELSE LET r == DeleteBucket(db, WipeSteps[i])
         IN  IF r.err # Nil /\ r.err # ErrBucketNotFound THEN r
             ELSE wipeBuckets(r.db, i + 1)

\* The body of the transaction of Wipe.
WipeTx(db) == wipeBuckets(db, 1)

\* ------------------------------------------- channel creation and closing
\* syncNewChannel: writes the channel under peer / outpoint unless that key
\* already holds one, and makes sure the peer has a link-node record.
syncNewChannelTx(db, channel) ==
    LET db1 == CreateBucketIfNotExists(db, Root, openChannelBucket)
        db2 == IF HasChan(db1, channel.peer, channel.op) THEN db1
               ELSE [db1 EXCEPT !.openChans = @ \cup {channel}]
        db3 == CreateBucketIfNotExists(db2, Root, nodeInfoBucket)
    IN  [db |-> [db3 EXCEPT !.linkNodes = @ \cup {channel.peer}],
         err |-> Nil]

\* OpenChannel.CloseChannel: moves the channel out of the open-channel tree
\* and writes its close summary into the closed-channel bucket.
CloseChannelTx(db, channel, summary) ==
    IF ~HasBucket(db, Root, openChannelBucket)
       \/ ~HasChan(db, channel.peer, channel.op)
    THEN [db |-> db, err |-> ErrNoActiveChannels]
    ELSE LET db1 == [db EXCEPT !.openChans =
                        {c \in @ : ~(c.peer = channel.peer /\ c.op = channel.op)}]
             db2 == CreateBucketIfNotExists(db1, Root, closedChannelBucket)
         IN  [db |-> PutSummary(db2, summary), err |-> Nil]

\* ---------------------------------------------------------- point lookups
\* Mutant: the scan ends after the first peer's bucket.
FetchChannel_FirstPeer(db, chanPoint) ==
    LET first == {c \in db.openChans :
                    \A d \in db.openChans : c.peer <= d.peer}
        found == {c \in first : c.op = chanPoint}
    IN  IF ~HasBucket(db, Root, openChannelBucket)
        THEN [chan |-> <<>>, err |-> ErrNoActiveChannels]
        ELSE IF found = {}
        THEN [chan |-> <<>>, err |-> ErrChannelNotFound]
        ELSE [chan |-> <<CHOOSE c \in found : TRUE>>, err |-> Nil]

\* FetchChannel: scans every peer's bucket of the open-channel tree for the
\* outpoint; the channel found under the last peer key is the one returned.
FetchChannel(db, chanPoint) ==
    LET found == {c \in db.openChans : c.op = chanPoint}
    IN  IF ~HasBucket(db, Root, openChannelBucket)
        THEN [chan |-> <<>>, err |-> ErrNoActiveChannels]
        ELSE IF found = {}
        THEN [chan |-> <<>>, err |-> ErrChannelNotFound]
        ELSE [chan |-> <<CHOOSE c \in found :
                            \A d \in found : d.peer <= c.peer>>,
              err |-> Nil]

\* FetchClosedChannel: the close summary stored under the outpoint.
FetchClosedChannel(db, chanID) ==
    IF ~HasBucket(db, Root, closedChannelBucket)
    THEN [summary |-> <<>>, err |-> ErrClosedChannelNotFound]
    ELSE IF ~HasSummary(db, chanID)
    THEN [summary |-> <<>>, err |-> ErrClosedChannelNotFound]
    ELSE [summary |-> <<SummaryAt(db, chanID)>>, err |-> Nil]

\* --------------------------------------------------- FetchClosedChannelForID
\* The wire form of an outpoint: the first 30 bytes and the last 2 bytes of
\* its transaction hash, and its output index.
HashPrefix(op) == 1 + ((op - 1) \div 4)
HashTail(op) == ((op - 1) \div 2) % 2
Index(op) == (op - 1) % 2

\* The 36-byte key of an outpoint: the hash, then the index, big endian.
OutPointKey(op) == <<HashPrefix(op), HashTail(op), Index(op)>>

\* bytes.Compare(a, b) < 0 on two outpoint keys.
KeyLess(a, b) ==
    LET x == OutPointKey(a)
        y == OutPointKey(b)
    IN  \/ x[1] < y[1]
        \/ x[1] = y[1] /\ x[2] < y[2]
        \/ x[1] = y[1] /\ x[2] = y[2] /\ x[3] < y[3]

\* Bitwise exclusive or of two naturals.
RECURSIVE Xor(_, _)
Xor(a, b) ==
    IF a = 0 /\ b = 0 THEN 0
    ELSE (((a % 2) + (b % 2)) % 2) + 2 * Xor(a \div 2, b \div 2)

\* The output index is folded into the last two bytes only.
Uint16 == 65536

\* lnwire.NewChanIDFromOutPoint: the transaction hash with the lower 16 bits
\* of the output index xor-ed into its last two bytes.
NewChanIDFromOutPoint(op) ==
    [prefix |-> HashPrefix(op),
     tail |-> Xor(HashTail(op), Index(op) % Uint16)]

\* ChannelID.IsChanPoint
IsChanPoint(cid, op) == cid = NewChanIDFromOutPoint(op)

\* The channel ids looked up.
ChanIDs == [prefix : 0..2, tail : 0..2]

\* The keys of the closed-channel bucket in the order of its cursor.
RECURSIVE SortKeys(_)
SortKeys(S) ==
    IF S = {} THEN <<>>
    ELSE LET first == CHOOSE x \in S : \A y \in S \ {x} : KeyLess(x, y)
         IN  <<first>> \o SortKeys(S \ {first})

\* cursor.Seek(cid[:30]): the position of the first key that is not below
\* the prefix, one past the end when there is none.
Seek(keys, prefix) ==
    LET at == {i \in 1..Len(keys) : HashPrefix(keys[i]) >= prefix}
    IN  IF at = {} THEN Len(keys) + 1
        ELSE CHOOSE i \in at : \A j \in at : i <= j

\* Mutant: the scan gives up at the first candidate that is not the channel
\* point of the id.
RECURSIVE scanClosed_FirstOnly(_, _, _, _)
scanClosed_FirstOnly(db, keys, i, cid) ==
    IF i > Len(keys) \/ ~(cid.prefix <= HashPrefix(keys[i]))
    THEN [summary |-> <<>>, err |-> ErrClosedChannelNotFound]
    ELSE IF ~IsChanPoint(cid, keys[i])
    THEN [summary |-> <<>>, err |-> ErrClosedChannelNotFound]
    ELSE [summary |-> <<SummaryAt(db, keys[i])>>, err |-> Nil]

\* The loop of FetchClosedChannelForID from cursor position i.
RECURSIVE scanClosed(_, _, _, _)
scanClosed(db, keys, i, cid) ==
    IF i > Len(keys) \/ ~(cid.prefix <= HashPrefix(keys[i]))
    THEN [summary |-> <<>>, err |-> ErrClosedChannelNotFound]
    ELSE IF ~IsChanPoint(cid, keys[i])
    THEN scanClosed(db, keys, i + 1, cid)
    ELSE [summary |-> <<SummaryAt(db, keys[i])>>, err |-> Nil]

\* The keys the loop of FetchClosedChannelForID decodes from cursor position
\* i, in order.
RECURSIVE scanDecoded(_, _, _)
scanDecoded(keys, i, cid) ==
    IF i > Len(keys) \/ ~(cid.prefix <= HashPrefix(keys[i])) THEN <<>>
    ELSE IF ~IsChanPoint(cid, keys[i])
    THEN <<keys[i]>> \o scanDecoded(keys, i + 1, cid)
    ELSE <<keys[i]>>

\* The keys one FetchClosedChannelForID call decodes with readOutpoint.
DecodedKeys(db, cid) ==
    IF ~HasBucket(db, Root, closedChannelBucket) THEN <<>>
    ELSE LET keys == SortKeys({s.op : s \in db.closedChans})
         IN  scanDecoded(keys, Seek(keys, cid.prefix), cid)

\* FetchClosedChannelForID: the first close summary, in key order from the
\* 30-byte prefix of the id, whose outpoint is the channel point of the id.
FetchClosedChannelForID(db, cid) ==
    IF ~HasBucket(db, Root, closedChannelBucket)
    THEN [summary |-> <<>>, err |-> ErrClosedChannelNotFound]
    ELSE LET keys == SortKeys({s.op : s \in db.closedChans})
         IN  scanClosed(db, keys, Seek(keys, cid.prefix), cid)

\* ---------------------------------------------------------- AbandonChannel
\* Mutant: a channel that is not in the open-channel tree is an error, closed
\* or not.
AbandonChannel_NotRepeatable(db, chanPoint, bestHeight) ==
    LET dbChan == FetchChannel(db, chanPoint)
    IN  IF dbChan.err # Nil
        THEN [db |-> db, err |-> dbChan.err, txs |-> <<"FetchChannel">>]
        ELSE LET summary == [op |-> chanPoint,
                             peer |-> dbChan.chan[1].peer,
                             closeType |-> Abandoned,
                             closeHeight |-> bestHeight,
                             pending |-> FALSE]
                 res == CloseChannelTx(db, dbChan.chan[1], summary)
             IN  [db |-> Update(db, res), err |-> res.err,
                  txs |-> <<"FetchChannel", "CloseChannel">>]

\* AbandonChannel: [db, err, txs] with db the committed contents and txs the
\* transactions the call ran, in order.
AbandonChannel(db, chanPoint, bestHeight) ==
    LET dbChan == FetchChannel(db, chanPoint)
        closed == FetchClosedChannel(db, chanPoint)
    IN  IF dbChan.err = ErrChannelNotFound
        THEN [db |-> db, err |-> closed.err,
              txs |-> <<"FetchChannel", "FetchClosedChannel">>]
        ELSE IF dbChan.err # Nil
        THEN [db |-> db, err |-> dbChan.err, txs |-> <<"FetchChannel">>]
        ELSE LET summary == [op |-> chanPoint,
                             peer |-> dbChan.chan[1].peer,
                             closeType |-> Abandoned,
                             closeHeight |-> bestHeight,
                             pending |-> FALSE]
                 res == CloseChannelTx(db, dbChan.chan[1], summary)
             IN  [db |-> Update(db, res), err |-> res.err,
                  txs |-> <<"FetchChannel", "CloseChannel">>]

\* ---------------------------------------------------------- PruneLinkNodes
\* fetchAllLinkNodes: the keys of the node-info bucket, ascending.
fetchAllLinkNodes(db) ==
    IF ~HasBucket(db, Root, nodeInfoBucket)
    THEN [nodes |-> <<>>, err |-> ErrLinkNodesNotFound]
    ELSE [nodes |-> SelectSeq(Iota(NumPeers), LAMBDA k : k \in db.linkNodes),
          err |-> Nil]

\* Mutant: the loop body never runs.
pruneEach_None(db, linkNodes, i) == [db |-> db, err |-> Nil]

\* The loop of PruneLinkNodes over the link nodes it fetched.
RECURSIVE pruneEach(_, _, _)
pruneEach(db, linkNodes, i) ==
    IF i > Len(linkNodes) THEN [db |-> db, err |-> Nil]
    ELSE LET r == pruneLinkNode(db, linkNodes[i])
         IN  IF r.err # Nil THEN r ELSE pruneEach(r.db, linkNodes, i + 1)

\* The body of the transaction of PruneLinkNodes.
PruneLinkNodesTx(db) ==
    LET linkNodes == fetchAllLinkNodes(db)
    IN  IF linkNodes.err # Nil THEN [db |-> db, err |-> linkNodes.err]
        ELSE pruneEach(db, linkNodes.nodes, 1)

\* ------------------------------------------------------ RestoreChannelShells
\* lnwire.ChanUpdateDirection: the direction bit of ChannelFlags.
ChanUpdateDirection == "ChanUpdateDirection"

\* The short channel id is an index derived from the funding outpoint.
ShortChanID(op) == op

\* bytes.Compare on two compressed keys; a key is modelled by its rank in
\* bytewise order.
bytesCompare(a, b) == IF a < b THEN -1 ELSE IF a = b THEN 0 ELSE 1

\* ChannelGraph.sourceNode: the node stored under the source key.
sourceNode(db) ==
    IF db.sourceNode = NoSource
    THEN [PubKeyBytes |-> NoSource, err |-> ErrSourceNodeNotSet]
    ELSE [PubKeyBytes |-> db.sourceNode, err |-> Nil]

\* ChannelGraph.SetSourceNode: stores the node's own key as the source.
setSourceNode(db, pub) ==
    [db |-> [CreateBucketIfNotExists(db, Root, nodeBucket) EXCEPT
                !.sourceNode = pub],
     err |-> Nil]

\* addChannelEdge: inserts the edge info unless the edge index holds one for
\* the channel id.
addChannelEdge(db, edge) ==
    IF \E e \in db.edges : e.ChannelID = edge.ChannelID
    THEN [db |-> db, err |-> ErrEdgeAlreadyExist]
    ELSE LET db1 == CreateBucketIfNotExists(db, Root, edgeBucket)
             db2 == CreateBucketIfNotExists(db1, edgeBucket, edgeIndexBucket)
         IN  [db |-> [db2 EXCEPT !.edges = @ \cup {edge}], err |-> Nil]

\* updateEdgePolicy: upserts the policy of an existing edge under the
\* channel id and the direction bit.
updateEdgePolicy(db, policy) ==
    IF ~\E e \in db.edges : e.ChannelID = policy.ChannelID
    THEN [db |-> db, err |-> ErrEdgeNotFound]
    ELSE [db |-> [db EXCEPT !.policies =
                    {q \in @ : ~(q.ChannelID = policy.ChannelID
                                 /\ q.ChannelFlags = policy.ChannelFlags)}
                    \cup {policy}],
          err |-> Nil]

\* The edge info RestoreChannelShells builds for a channel.
RestoredEdge(channel, selfPub) ==
    LET chanPeer == channel.peer
        selfIsSmaller == bytesCompare(selfPub, chanPeer) = -1
    IN  [ChannelID |-> ShortChanID(channel.op), ChannelPoint |-> channel.op,
         NodeKey1Bytes |-> IF selfIsSmaller THEN selfPub ELSE chanPeer,
         NodeKey2Bytes |-> IF selfIsSmaller THEN chanPeer ELSE selfPub]

\* The edge policy RestoreChannelShells builds for a channel.
RestoredPolicy(channel, selfPub, now) ==
    LET selfIsSmaller == bytesCompare(selfPub, channel.peer) = -1
    IN  [ChannelID |-> ShortChanID(channel.op), LastUpdate |-> now,
         ChannelFlags |-> IF ~selfIsSmaller THEN {ChanUpdateDirection}
                          ELSE {}]

\* One iteration of the loop of RestoreChannelShells.
restoreShell(db, shell, now) ==
    LET channel == [shell EXCEPT !.status = @ \cup {ChanStatusRestored}]
        r1 == syncNewChannelTx(db, channel)
        selfNode == sourceNode(r1.db)
        edgeInfo == RestoredEdge(channel, selfNode.PubKeyBytes)
        r2 == addChannelEdge(r1.db, edgeInfo)
        chanEdge == RestoredPolicy(channel, selfNode.PubKeyBytes, now)
        r3 == updateEdgePolicy(r2.db, chanEdge)
    IN  IF r1.err # Nil THEN [db |-> r1.db, err |-> r1.err]
        ELSE IF ~HasBucket(r1.db, Root, nodeBucket)
        THEN [db |-> r1.db, err |-> ErrGraphNotFound]
        ELSE IF selfNode.err # Nil THEN [db |-> r1.db, err |-> selfNode.err]
        ELSE IF r2.err # Nil /\ r2.err # ErrEdgeAlreadyExist
        THEN [db |-> r2.db, err |-> r2.err]
        ELSE r3

\* The body of the transaction of RestoreChannelShells: [db, err,
\* chansRestored].
RECURSIVE RestoreChannelShellsTx(_, _, _, _, _)
RestoreChannelShellsTx(db, channelShells, i, now, chansRestored) ==
    IF i > Len(channelShells)
    THEN [db |-> db, err |-> Nil, chansRestored |-> chansRestored]
    ELSE LET r == restoreShell(db, channelShells[i], now)
         IN  IF r.err # Nil
             THEN [db |-> r.db, err |-> r.err, chansRestored |-> chansRestored]
             ELSE RestoreChannelShellsTx(
                      r.db, channelShells, i + 1, now,
                      Append(chansRestored, ShortChanID(channelShells[i].op)))

\* ------------------------------------------------------------ AddrsForNode
\* The addresses a peer was reached at, written into its link node when a
\* channel with it is created, and the addresses its node announcement
\* carries in the graph.  The two sources share one address.
LinkNodeAddrs(pub) == {<<pub, "direct">>, <<pub, "both">>}
GraphNodeAddrs(pub) == {<<pub, "both">>, <<pub, "announced">>}

\* fetchLinkNode: the link node stored under the key; an error when the
\* node-info bucket or the record is missing.
fetchLinkNode(db, targetPub) ==
    IF ~HasBucket(db, Root, nodeInfoBucket)
    THEN [Addresses |-> {}, err |-> ErrLinkNodesNotFound]
    ELSE IF targetPub \notin db.linkNodes
    THEN [Addresses |-> {}, err |-> ErrNodeNotFound]
    ELSE [Addresses |-> LinkNodeAddrs(targetPub), err |-> Nil]

\* fetchLightningNode: the graph node stored under the key.
fetchLightningNode(db, nodePub) ==
    IF nodePub \notin db.graphNodes
    THEN [Addresses |-> {}, err |-> ErrGraphNodeNotFound]
    ELSE [Addresses |-> GraphNodeAddrs(nodePub), err |-> Nil]

\* AddrsForNode on one snapshot: the addresses of the link node and of the
\* graph node, one entry per address string.
AddrsForNodeView(db, nodePub) ==
    LET linkNode == fetchLinkNode(db, nodePub)
        graphNode == fetchLightningNode(db, nodePub)
    IN  IF linkNode.err # Nil THEN [addrs |-> {}, err |-> linkNode.err]
        ELSE IF ~HasBucket(db, Root, nodeBucket)
        THEN [addrs |-> {}, err |-> ErrGraphNotFound]
        ELSE IF graphNode.err # Nil /\ graphNode.err # ErrGraphNodeNotFound
        THEN [addrs |-> {}, err |-> graphNode.err]
        ELSE [addrs |-> linkNode.Addresses \cup graphNode.Addresses,
              err |-> Nil]

\* addLightningNode: the graph stores the node announced under the key.
addLightningNode(db, nodePub) ==
    [db |-> [CreateBucketIfNotExists(db, Root, nodeBucket) EXCEPT
                !.graphNodes = @ \cup {nodePub}],
     err |-> Nil]

\* ------------------------------------------------------------ initial state
AllBuckets == {CreateSteps[i] : i \in 1..Len(CreateSteps)}

\* A file left by an earlier run of the program at schema version k; a file
\* from before the meta record existed has no meta bucket.
SeedDb(k) ==
    [EmptyDb EXCEPT
        !.buckets = IF k = NoMeta THEN AllBuckets \ {<<Root, metaBucket>>}
                    ELSE AllBuckets,
        !.version = k,
        !.migrated = Iota(k)]

\* What the last operation showed its caller and its collaborators: its error,
\* whether Open took the creation path, the version Open read (NoMeta when
\* none was found), the migrations Open invoked, the key a query was about
\* with the addresses it returned, the transactions the operation ran and
\* the channels a query returned and the shells a restore was given.
NoOp == [op |-> "none", err |-> Nil, created |-> FALSE, stored |-> NoMeta,
         invoked |-> <<>>, node |-> 0, addrs |-> {}, txs |-> <<>>,
         chans |-> <<>>, shells |-> <<>>]

\* No RestoreChannelShells call is under way: locked tells that the call
\* holds cacheMu, pc counts its steps (1: lock taken, 2: transaction
\* committed), chansRestored is the list its transaction collected.
NoRestore == [pc |-> 0, locked |-> FALSE, shells |-> <<>>,
              chansRestored |-> <<>>]

\* No FetchAllChannels call is under way: pc counts the transactions the call
\* has run, channels is the list it has collected and present holds the
\* outpoints whose channel was in the open-channel tree at every one of
\* these transactions.
NoScan == [pc |-> 0, channels |-> <<>>, present |-> {}]

\* The program starts in a directory without channel.db.
Init ==
    /\ fileExists = FALSE
    /\ file = EmptyDb
    /\ dbOpen = FALSE
    /\ leaked = FALSE
    /\ last = NoOp
    /\ rejectCache = {}
    /\ chanCache = {}
    /\ scan = NoScan
    /\ restore = NoRestore

\* The program starts in a directory that may hold the channel.db of an
\* earlier run, at any schema version.
InitSeeded ==
    /\ fileExists \in BOOLEAN
    /\ file \in IF fileExists THEN {SeedDb(k) : k \in NoMeta..MaxSeedVersion}
                ELSE {EmptyDb}
    /\ dbOpen = FALSE
    /\ leaked = FALSE
    /\ last = NoOp
    /\ rejectCache = {}
    /\ chanCache = {}
    /\ scan = NoScan
    /\ restore = NoRestore

\* ------------------------------------------------------------------ actions
\* Open(dbPath): creates the file when it is missing, opens it and brings
\* the schema version up to date.  failCreate and failMig choose the step of
\* the creating transaction and the migration that fail (0: none).
Open(failCreate, failMig) ==
    /\ ~dbOpen /\ ~leaked
    /\ LET c == IF ~fileExists THEN createChannelDB(failCreate)
                ELSE [db |-> file, err |-> Nil, handleOpen |-> FALSE]
       IN  IF c.err # Nil
           THEN /\ fileExists' = TRUE
                /\ file' = c.db
                /\ dbOpen' = FALSE
                /\ leaked' = c.handleOpen
                /\ last' = [NoOp EXCEPT !.op = "Open", !.err = c.err,
                                        !.created = TRUE]
           ELSE LET s == syncVersions(c.db, dbVersions, failMig)
                IN  /\ fileExists' = TRUE
                    /\ file' = s.db
                    /\ dbOpen' = (s.err = Nil)
                    /\ leaked' = c.handleOpen
                    /\ last' = [NoOp EXCEPT !.op = "Open", !.err = s.err,
                                            !.created = ~fileExists,
                                            !.stored =
                                                IF FetchMeta(c.db).err = Nil
                                                THEN FetchMeta(c.db).meta.DbVersionNumber
                                                ELSE NoMeta,
                                            !.invoked = s.invoked]
    /\ rejectCache' = {}
    /\ chanCache' = {}
    /\ UNCHANGED <<scan, restore>>

\* DB.Close: releases the handle of an open database.
Close ==
    /\ dbOpen
    /\ dbOpen' = FALSE
    /\ last' = [NoOp EXCEPT !.op = "Close"]
    /\ UNCHANGED <<fileExists, file, leaked, rejectCache, chanCache, scan, restore>>

\* The process exits while it holds a handle it never closed: the operating
\* system closes it.
Exit ==
    /\ leaked
    /\ dbOpen' = FALSE
    /\ leaked' = FALSE
    /\ last' = [NoOp EXCEPT !.op = "Exit"]
    /\ UNCHANGED <<fileExists, file, rejectCache, chanCache, scan, restore>>

\* One committed db.Update of an open database.
Commit(name, res) ==
    /\ file' = Update(file, res)
    /\ last' = [NoOp EXCEPT !.op = name, !.err = res.err]
    /\ UNCHANGED <<fileExists, dbOpen, leaked, rejectCache, chanCache, scan,
                   restore>>

Wipe ==
    /\ dbOpen
    /\ Commit("Wipe", WipeTx(file))

MarkChanFullyClosed(chanPoint) ==
    /\ dbOpen
    /\ Commit("MarkChanFullyClosed", MarkChanFullyClosedTx(file, chanPoint))

\* A channel is funded with the outpoint's peer: born in Default status,
\* pending or not.  The outpoint of a closed channel is spent and funds no
\* further channel.
SyncNewChannel(op, pending) ==
    /\ dbOpen
    /\ ~HasSummary(file, op)
    /\ Commit("SyncNewChannel",
              syncNewChannelTx(file, [op |-> op, peer |-> PeerOf(op),
                                      pending |-> pending,
                                      status |-> ChanStatusDefault]))

\* The funding transaction confirms: the pending flag is cleared.
MarkAsOpen(op) ==
    /\ dbOpen
    /\ \E c \in file.openChans :
          /\ c.op = op /\ c.pending
          /\ Commit("MarkAsOpen",
                    [db |-> [file EXCEPT !.openChans =
                                (@ \ {c}) \cup {[c EXCEPT !.pending = FALSE]}],
                     err |-> Nil])

\* A close is initiated: a status bit is set, the channel waits for its close.
ApplyChanStatus(op) ==
    /\ dbOpen
    /\ \E c \in file.openChans :
          /\ c.op = op /\ c.status = ChanStatusDefault
          /\ Commit("ApplyChanStatus",
                    [db |-> [file EXCEPT !.openChans =
                                (@ \ {c}) \cup
                                {[c EXCEPT !.status =
                                    @ \cup {ChanStatusCommitBroadcasted}]}],
                     err |-> Nil])

\* The channel is closed on chain: a cooperative close is recorded with
\* pending = FALSE, a force close with pending = TRUE.  The store does not
\* look at the close height; these summaries carry height 0.
CloseChannel(op, closeType) ==
    /\ dbOpen
    /\ \E c \in file.openChans :
          /\ c.op = op
          /\ Commit("CloseChannel",
                    CloseChannelTx(file, c,
                        [op |-> op, peer |-> c.peer, closeType |-> closeType,
                         closeHeight |-> 0,
                         pending |-> (closeType = LocalForceClose)]))

\* The graph learns of a peer's node announcement.
AddLightningNode(nodePub) ==
    /\ dbOpen
    /\ nodePub \notin file.graphNodes
    /\ Commit("AddLightningNode", addLightningNode(file, nodePub))

\* AddrsForNode(nodePub): a read-only transaction.
AddrsForNode(nodePub) ==
    /\ dbOpen
    /\ LET res == AddrsForNodeView(file, nodePub)
       IN  last' = [NoOp EXCEPT !.op = "AddrsForNode", !.err = res.err,
                                !.node = nodePub, !.addrs = res.addrs]
    /\ UNCHANGED <<fileExists, file, dbOpen, leaked, rejectCache, chanCache,
                   scan, restore>>

\* The store's heights of the chain (bestHeight of AbandonChannel).
Heights == 1..MaxHeight

\* AbandonChannel(chanPoint, bestHeight).
AbandonChannelOp(chanPoint, bestHeight) ==
    /\ dbOpen
    /\ LET res == AbandonChannel(file, chanPoint, bestHeight)
       IN  /\ file' = res.db
           /\ last' = [NoOp EXCEPT !.op = "AbandonChannel", !.err = res.err,
                                   !.txs = res.txs]
    /\ UNCHANGED <<fileExists, dbOpen, leaked, rejectCache, chanCache, scan,
                   restore>>

PruneLinkNodes ==
    /\ dbOpen
    /\ Commit("PruneLinkNodes", PruneLinkNodesTx(file))

\* The node starts on the database and stores its own key as the graph's
\* source node; a database has one identity until it is wiped.
SetSourceNode(pub) ==
    /\ dbOpen
    /\ file.sourceNode = NoSource
    /\ Commit("SetSourceNode", setSourceNode(file, pub))

\* The shell a channel backup holds for an outpoint: the channel with its
\* peer, not pending and in Default status.  A backup holds no channel that
\* the database records as closed.
ShellOf(op) ==
    [op |-> op, peer |-> PeerOf(op), pending |-> FALSE,
     status |-> ChanStatusDefault]

\* A graph query takes cacheMu and remembers its answer for a channel id in
\* the reject cache.
CacheReject(chanID) ==
    /\ dbOpen
    /\ ~restore.locked
    /\ chanID \notin rejectCache
    /\ rejectCache' = rejectCache \cup {chanID}
    /\ last' = [NoOp EXCEPT !.op = "CacheReject"]
    /\ UNCHANGED <<fileExists, file, dbOpen, leaked, chanCache, scan, restore>>

\* A graph query takes cacheMu and keeps the channel of a channel id in the
\* channel cache.
CacheChannel(chanID) ==
    /\ dbOpen
    /\ ~restore.locked
    /\ chanID \notin chanCache
    /\ chanCache' = chanCache \cup {chanID}
    /\ last' = [NoOp EXCEPT !.op = "CacheChannel"]
    /\ UNCHANGED <<fileExists, file, dbOpen, leaked, rejectCache, scan, restore>>

\* Mutant: the cache entries of every shell are removed whether or not the
\* transaction committed.
RestoreChannelShells_EagerInvalidate(channelShells, now) ==
    /\ dbOpen
    /\ ~restore.locked
    /\ \A i \in 1..Len(channelShells) : ~HasSummary(file, channelShells[i].op)
    /\ LET res == RestoreChannelShellsTx(file, channelShells, 1, now, <<>>)
           removed == {ShortChanID(channelShells[i].op) :
                          i \in 1..Len(channelShells)}
       IN  /\ file' = Update(file, res)
           /\ last' = [NoOp EXCEPT !.op = "RestoreChannelShells",
                                   !.err = res.err,
                                   !.shells = channelShells]
           /\ rejectCache' = rejectCache \ removed
           /\ chanCache' = chanCache \ removed
    /\ UNCHANGED <<fileExists, dbOpen, leaked, scan, restore>>

\* RestoreChannelShells(channelShells...): one transaction, then the removal
\* of the restored channel ids from both caches when it committed.
RestoreChannelShells(channelShells, now) ==
    /\ dbOpen
    /\ ~restore.locked
    /\ \A i \in 1..Len(channelShells) : ~HasSummary(file, channelShells[i].op)
    /\ LET res == RestoreChannelShellsTx(file, channelShells, 1, now, <<>>)
           removed == {res.chansRestored[i] : i \in 1..Len(res.chansRestored)}
       IN  /\ file' = Update(file, res)
           /\ last' = [NoOp EXCEPT !.op = "RestoreChannelShells",
                                   !.err = res.err,
                                   !.shells = channelShells]
           /\ rejectCache' = IF res.err = Nil THEN rejectCache \ removed
                             ELSE rejectCache
           /\ chanCache' = IF res.err = Nil THEN chanCache \ removed
                           ELSE chanCache
    /\ UNCHANGED <<fileExists, dbOpen, leaked, scan, restore>>

\* A graph query takes cacheMu and answers for a channel id from an entry
\* of one of the caches.
CacheHit(chanID) ==
    /\ dbOpen
    /\ ~restore.locked
    /\ chanID \in rejectCache \cup chanCache
    /\ last' = [NoOp EXCEPT !.op = "CacheHit", !.node = chanID]
    /\ UNCHANGED <<fileExists, file, dbOpen, leaked, rejectCache, chanCache,
                   scan, restore>>

\* Mutant: the call starts without taking cacheMu.
RestoreLock_NoLock(channelShells) ==
    /\ dbOpen
    /\ ~restore.locked
    /\ \A i \in 1..Len(channelShells) : ~HasSummary(file, channelShells[i].op)
    /\ restore' = [pc |-> 1, locked |-> FALSE, shells |-> channelShells,
                   chansRestored |-> <<>>]
    /\ UNCHANGED <<fileExists, file, dbOpen, leaked, last, rejectCache,
                   chanCache, scan>>

\* RestoreChannelShells step by step.  First step: chanGraph.cacheMu.Lock().
RestoreLock(channelShells) ==
    /\ dbOpen
    /\ ~restore.locked
    /\ \A i \in 1..Len(channelShells) : ~HasSummary(file, channelShells[i].op)
    /\ restore' = [pc |-> 1, locked |-> TRUE, shells |-> channelShells,
                   chansRestored |-> <<>>]
    /\ UNCHANGED <<fileExists, file, dbOpen, leaked, last, rejectCache,
                   chanCache, scan>>

\* Second step: the d.Update transaction; on an error the call returns and
\* the deferred Unlock runs.
RestoreUpdate(now) ==
    /\ dbOpen
    /\ restore.pc = 1
    /\ LET res == RestoreChannelShellsTx(file, restore.shells, 1, now, <<>>)
       IN  IF res.err # Nil
           THEN /\ restore' = NoRestore
                /\ last' = [NoOp EXCEPT !.op = "RestoreChannelShells",
                                        !.err = res.err,
                                        !.shells = restore.shells]
                /\ UNCHANGED file
           ELSE /\ file' = res.db
                /\ restore' = [restore EXCEPT
                                  !.pc = 2,
                                  !.chansRestored = res.chansRestored]
                /\ UNCHANGED last
    /\ UNCHANGED <<fileExists, dbOpen, leaked, rejectCache, chanCache, scan>>

\* Last step: the restored channel ids are removed from both caches, the
\* call returns and the deferred Unlock runs.
RestoreInvalidate ==
    /\ restore.pc = 2
    /\ LET removed == {restore.chansRestored[i] :
                          i \in 1..Len(restore.chansRestored)}
       IN  /\ rejectCache' = rejectCache \ removed
           /\ chanCache' = chanCache \ removed
    /\ restore' = NoRestore
    /\ last' = [NoOp EXCEPT !.op = "RestoreChannelShells",
                            !.shells = restore.shells]
    /\ UNCHANGED <<fileExists, file, dbOpen, leaked, scan>>

\* FetchAllChannels, one fetchChannels transaction at a time: the call
\* returns at the first error, or with the collected list after the last
\* transaction.
FetchAllChannelsStep ==
    /\ dbOpen
    /\ LET i == scan.pc + 1
           r == fetchChannels(file, ScanSteps[i][1], ScanSteps[i][2])
           channels == scan.channels \o r.chans
           stored == {c.op : c \in file.openChans}
           present == IF i = 1 THEN stored ELSE scan.present \cap stored
       IN  IF r.err # Nil
           THEN /\ scan' = NoScan
                /\ last' = [NoOp EXCEPT !.op = "FetchAllChannels",
                                        !.err = r.err]
           ELSE IF i = Len(ScanSteps)
           THEN /\ scan' = NoScan
                /\ last' = [NoOp EXCEPT !.op = "FetchAllChannels",
                                        !.chans = channels]
           ELSE /\ scan' = [pc |-> i, channels |-> channels,
                            present |-> present]
                /\ UNCHANGED last
    /\ UNCHANGED <<fileExists, file, dbOpen, leaked, rejectCache, chanCache,
                   restore>>

\* The faults that can show in an Open of the current file: a step of the
\* creating transaction when the file is missing, a migration when the file
\* is there and is not at the latest version (a file at the latest version,
\* as a created one is, has no migration to run).
OpenFaults ==
    IF ~fileExists THEN CreateFaults \X {0}
    ELSE IF file.version = LatestVersion THEN {<<0, 0>>}
    ELSE {0} \X MigrationFaults

\* The life cycle of the database file.
NextOpen ==
    \/ \E f \in OpenFaults : Open(f[1], f[2])
    \/ Close
    \/ Exit
    \/ Wipe

SpecOpen == InitSeeded /\ [][NextOpen]_vars

Next ==
    \/ \E f \in OpenFaults : Open(f[1], f[2])
    \/ Close
    \/ Exit
    \/ Wipe
    \/ \E op \in OutPoints : MarkChanFullyClosed(op)
    \/ \E op \in OutPoints, pending \in BOOLEAN : SyncNewChannel(op, pending)
    \/ \E op \in OutPoints : MarkAsOpen(op)
    \/ \E op \in OutPoints : ApplyChanStatus(op)
    \/ \E op \in OutPoints, closeType \in {CooperativeLocal, LocalForceClose} :
          CloseChannel(op, closeType)

Spec == Init /\ [][Next]_vars

\* The address book of the peers: channels are funded, force closed and
\* fully closed while the graph learns of peers and addresses are queried.
NextAddrs ==
    \/ Open(0, 0)
    \/ \E op \in OutPoints : SyncNewChannel(op, FALSE)
    \/ \E op \in OutPoints : CloseChannel(op, LocalForceClose)
    \/ \E op \in OutPoints : MarkChanFullyClosed(op)
    \/ \E pub \in Peers : AddLightningNode(pub)
    \/ \E pub \in Peers : AddrsForNode(pub)

SpecAddrs == Init /\ [][NextAddrs]_vars

\* A FetchAllChannels call runs while other callers of the database create
\* channels, confirm them and initiate their close.  The channels the other
\* callers work on are those of all outpoints but the last two.
ScanOutPoints == 1..(NumOutPoints - 2)

NextTx ==
    \/ Open(0, 0)
    \/ \E op \in ScanOutPoints, pending \in BOOLEAN :
          SyncNewChannel(op, pending)
    \/ \E op \in ScanOutPoints : MarkAsOpen(op)
    \/ \E op \in ScanOutPoints : ApplyChanStatus(op)
    \/ FetchAllChannelsStep

SpecTx == Init /\ [][NextTx]_vars

\* The peers' link nodes: channels are funded or restored from a backup,
\* force closed, fully closed or abandoned, link nodes are pruned and the
\* database is wiped.  The channels followed are those of all outpoints but
\* the last.
LinkOutPoints == 1..(NumOutPoints - 1)

NextPeers ==
    \/ Open(0, 0)
    \/ Wipe
    \/ SetSourceNode(0)
    \/ \E op \in LinkOutPoints : SyncNewChannel(op, FALSE)
    \/ \E op \in LinkOutPoints : RestoreChannelShells(<<ShellOf(op)>>, 1)
    \/ \E op \in LinkOutPoints : CloseChannel(op, LocalForceClose)
    \/ \E op \in LinkOutPoints : MarkChanFullyClosed(op)
    \/ PruneLinkNodes
    \/ \E op \in LinkOutPoints, h \in Heights : AbandonChannelOp(op, h)

SpecPeers == Init /\ [][NextPeers]_vars

\* Restoring from channel backups: the node's own key is below, above or
\* equal to a peer's, and backups of one or two shells are restored at
\* different times.
SelfKeys == {0, 1, NumPeers + 1}
Times == 1..MaxTime
Backups ==
    {<<ShellOf(op)>> : op \in LinkOutPoints}
      \cup {<<ShellOf(a), ShellOf(b)>> : a, b \in LinkOutPoints}

NextRestore ==
    \/ Open(0, 0)
    \/ Wipe
    \/ \E pub \in SelfKeys : SetSourceNode(pub)
    \/ \E channelShells \in Backups, now \in Times :
          RestoreChannelShells(channelShells, now)

SpecRestore == Init /\ [][NextRestore]_vars

\* The graph caches during restores: queries fill the caches while backups
\* are restored, before and after the source node is set and after a wipe.
CachedIDs == {ShortChanID(op) : op \in ScanOutPoints}

NextCache ==
    \/ Open(0, 0)
    \/ Wipe
    \/ SetSourceNode(0)
    \/ \E chanID \in CachedIDs : CacheReject(chanID)
    \/ \E chanID \in CachedIDs : CacheChannel(chanID)
    \/ \E channelShells \in Backups : RestoreChannelShells(channelShells, 1)

SpecCache == Init /\ [][NextCache]_vars

\* A restore step by step among graph queries that take cacheMu.
NextLock ==
    \/ Open(0, 0)
    \/ SetSourceNode(0)
    \/ \E chanID \in CachedIDs : CacheReject(chanID)
    \/ \E chanID \in CachedIDs : CacheChannel(chanID)
    \/ \E chanID \in CachedIDs : CacheHit(chanID)
    \/ \E channelShells \in Backups : RestoreLock(channelShells)
    \/ RestoreUpdate(1)
    \/ RestoreInvalidate

SpecLock == Init /\ [][NextLock]_vars

\* =================================================================== claims
\* The registered non-nil migrations with a target version above k, ascending.
RegisteredAbove(k) ==
    SelectSeq(Iota(LatestVersion),
              LAMBDA n : /\ n > k
                         /\ \E i \in 1..Len(dbVersions) :
                               /\ dbVersions[i].number = n
                               /\ dbVersions[i].migration # NoMigration)

\* Open finds an existing file whose meta record holds version k.
OpensStored(k) == fileExists /\ HasBucket(file, Root, metaBucket) /\ file.version = k

\* C1: when Open finds stored version k < latest and migration m in
\* (k, latest] fails, Open returns that error, the migrations up to m were
\* invoked, and the file (version and every bucket) is exactly as before, so
\* the next Open starts from k again.
C1_MigrationAtomic ==
    [][ \A k \in 0..(LatestVersion - 1), m \in 1..LatestVersion :
          (m > k /\ OpensStored(k) /\ Open(0, m))
          => /\ last'.err = ErrMigration
             /\ last'.invoked[Len(last'.invoked)] = m
             /\ file' = file
             /\ fileExists'
             /\ ~dbOpen' ]_vars

\* A failed migration after earlier migrations of the same Open had written.
C1_Witness ==
    /\ last.op = "Open" /\ last.err = ErrMigration
    /\ last.stored = 3 /\ last.invoked = <<4, 5, 6>>
    /\ file.version = 3 /\ file.migrated = <<1, 2, 3>>

\* C2: for stored version k < latest a successful Open invokes exactly the
\* registered non-nil migrations with target in (k, latest], each once and in
\* ascending order, and commits their writes together with version = latest.
C2_MigrationsApplied ==
    [][ \A k \in 0..(LatestVersion - 1), m \in MigrationFaults :
          (OpensStored(k) /\ Open(0, m) /\ last'.err = Nil)
          => /\ last'.invoked = RegisteredAbove(k)
             /\ file'.migrated = file.migrated \o RegisteredAbove(k)
             /\ file'.version = LatestVersion
             /\ file' = [file EXCEPT !.migrated = file'.migrated,
                                     !.version = LatestVersion] ]_vars

C2_Witness ==
    /\ last.op = "Open" /\ last.err = Nil /\ last.stored = 3
    /\ last.invoked = <<4, 5, 6, 7, 8, 9, 10, 11>>
    /\ file.version = 11 /\ dbOpen

\* C3: when the stored version exceeds the latest known version, Open fails
\* with ErrDBReversion, invokes no migration and leaves the file unchanged.
C3_Reversion ==
    [][ \A k \in (LatestVersion + 1)..MaxSeedVersion, m \in MigrationFaults :
          (OpensStored(k) /\ Open(0, m))
          => /\ last'.err = ErrDBReversion
             /\ last'.invoked = <<>>
             /\ file' = file
             /\ ~dbOpen' ]_vars

C3_Witness ==
    /\ last.op = "Open" /\ last.err = ErrDBReversion
    /\ last.stored > LatestVersion /\ file.version = last.stored

\* C4: no step of any operation lowers the stored meta version or removes
\* the meta record.
C4_VersionMonotonic == [][ file'.version >= file.version ]_vars

\* An Open raised a stored version below the latest to the latest.
C4_Witness ==
    /\ last.op = "Open" /\ last.err = Nil /\ last.stored \in 0..(LatestVersion - 1)
    /\ file.version = LatestVersion

\* C5 as stated: when Open finds no meta record it writes the latest version
\* and runs no migration.
C5_NoMetaNoMigration ==
    (last.op = "Open" /\ ~last.created /\ last.stored = NoMeta)
    => (file.version = LatestVersion /\ last.invoked = <<>>)

\* C5 amended: when Open finds no meta record it treats the stored version as
\* 0: it invokes the registered migrations 1..latest in ascending order in
\* one transaction, writes the latest version if all of them succeed, and
\* writes nothing if one fails.
C5_NoMetaMigratesFromZero ==
    [][ \A m \in MigrationFaults :
          (fileExists /\ FetchMeta(file).err = ErrMetaNotFound /\ Open(0, m))
          => IF m = 0
             THEN /\ last'.err = Nil
                  /\ last'.invoked = RegisteredAbove(0)
                  /\ file'.version = LatestVersion
                  /\ file'.migrated = file.migrated \o RegisteredAbove(0)
             ELSE /\ last'.err = ErrMigration
                  /\ last'.invoked = SubSeq(RegisteredAbove(0), 1, m)
                  /\ file' = file ]_vars

C5_Witness ==
    /\ last.op = "Open" /\ last.err = Nil /\ last.stored = NoMeta
    /\ ~last.created
    /\ last.invoked = <<1, 2, 3, 4, 5, 6, 7, 8, 9, 10, 11>>
    /\ file.version = LatestVersion

C7_HandlesClosedOnError ==
    (last.op = "Open" /\ last.err # Nil) => (~leaked /\ ~dbOpen)

\* C8: when Open fails, the persistent state is as before the call; a file
\* that was absent before a failed creation is absent afterwards.
C8_FailedOpenLeavesFile ==
    [][ \A fc \in CreateFaults, m \in MigrationFaults :
          (Open(fc, m) /\ last'.err # Nil)
          => (fileExists' = fileExists /\ file' = file) ]_vars

\* C9: after a successful Wipe none of the schema's top-level buckets other
\* than the meta bucket exists, and the meta record is still there.
C9_WipeRemovesSchemaBuckets ==
    (last.op = "Wipe" /\ last.err = Nil)
    => /\ \A b \in SchemaTopLevel : ~HasBucket(file, Root, b)
       /\ HasBucket(file, Root, metaBucket)
       /\ file.version = LatestVersion

\* The peer has no channel in the open-channel tree.
NoOpenChannels(db, peer) == \A c \in db.openChans : c.peer # peer

\* C10: MarkChanFullyClosed on an existing close summary succeeds and commits
\* together the summary with pending = FALSE, nothing else of it changed, and
\* the deletion of the peer's link node exactly when the peer has no channel
\* in the open-channel tree; nothing else in the file changes.
C10_MarkChanFullyClosed ==
    [][ \A op \in OutPoints :
          (last'.op = "MarkChanFullyClosed" /\ HasSummary(file, op)
           /\ MarkChanFullyClosed(op))
          => LET s == SummaryAt(file, op)
             IN  /\ last'.err = Nil
                 /\ file'.closedChans =
                       (file.closedChans \ {s}) \cup {[s EXCEPT !.pending = FALSE]}
                 /\ file'.linkNodes =
                       IF NoOpenChannels(file, s.peer)
                       THEN file.linkNodes \ {s.peer}
                       ELSE file.linkNodes
                 /\ file' = [file EXCEPT !.closedChans = file'.closedChans,
                                         !.linkNodes = file'.linkNodes] ]_vars

\* Two channels of one peer, both fully closed: the second MarkChanFullyClosed
\* removed the link node the first had kept.
C10_Witness ==
    /\ last.op = "MarkChanFullyClosed" /\ last.err = Nil
    /\ PeerOf(1) = PeerOf(2)
    /\ PeerOf(1) \notin file.linkNodes
    /\ \A op \in {1, 2} :
          /\ HasSummary(file, op)
          /\ SummaryAt(file, op).peer = PeerOf(1)
          /\ SummaryAt(file, op).closeType = LocalForceClose
          /\ ~SummaryAt(file, op).pending

\* The first of two channels is fully closed while the second is open: the
\* link node is kept.
C10_KeptWhileOpen ==
    /\ last.op = "MarkChanFullyClosed" /\ last.err = Nil
    /\ PeerOf(1) \in file.linkNodes
    /\ HasSummary(file, 1) /\ SummaryAt(file, 1).peer = PeerOf(1)
    /\ ~SummaryAt(file, 1).pending
    /\ HasChan(file, PeerOf(1), 2)

\* C11: MarkChanFullyClosed on an outpoint without an entry in the
\* closed-channel bucket returns an error and leaves the database unchanged:
\* no summary is written, no link node is deleted and a closed-channel bucket
\* that was missing is still missing.
C11_MissingSummaryUnchanged ==
    [][ \A op \in OutPoints :
          (last'.op = "MarkChanFullyClosed" /\ ~HasSummary(file, op)
           /\ MarkChanFullyClosed(op))
          => /\ last'.err = ErrNoClosedChannel
             /\ file'.closedChans = file.closedChans
             /\ file'.linkNodes = file.linkNodes
             /\ HasBucket(file', Root, closedChannelBucket)
                   = HasBucket(file, Root, closedChannelBucket)
             /\ file' = file ]_vars

\* MarkChanFullyClosed failed on a database whose closed-channel bucket Wipe
\* had deleted, while a peer had a link node: the bucket is still missing.
C11_Witness ==
    /\ last.op = "MarkChanFullyClosed" /\ last.err = ErrNoClosedChannel
    /\ dbOpen
    /\ ~HasBucket(file, Root, closedChannelBucket)
    /\ file.linkNodes # {}

\* Every close summary of the peer is fully closed, and there is one.
FullyClosed(db, peer) ==
    /\ \E s \in db.closedChans : s.peer = peer
    /\ \A s \in db.closedChans : s.peer = peer => ~s.pending

\* C12: AddrsForNode(peer) returns the deduplicated union of the peer's
\* link-node and graph-node addresses while the peer has an open channel, and
\* once the peer's last open channel is fully closed it returns, without
\* error, exactly the graph-known addresses.
C12_AddrsForNode ==
    \A peer \in Peers :
        (last.op = "AddrsForNode" /\ last.node = peer)
        => LET graphAddrs == IF peer \in file.graphNodes
                             THEN GraphNodeAddrs(peer) ELSE {}
           IN  /\ ~NoOpenChannels(file, peer)
                    => /\ last.err = Nil
                       /\ last.addrs = LinkNodeAddrs(peer) \cup graphAddrs
               /\ (NoOpenChannels(file, peer) /\ FullyClosed(file, peer))
                    => /\ last.err = Nil
                       /\ last.addrs = graphAddrs

\* C12, the half that holds: with an open channel the peer's addresses are
\* the union of both sources, each address once.
C12_UnionWhileOpen ==
    \A peer \in Peers :
        (last.op = "AddrsForNode" /\ last.node = peer
         /\ ~NoOpenChannels(file, peer))
        => /\ last.err = Nil
           /\ last.addrs = LinkNodeAddrs(peer) \cup
                            (IF peer \in file.graphNodes
                             THEN GraphNodeAddrs(peer) ELSE {})
           /\ Cardinality(last.addrs) =
                 IF peer \in file.graphNodes THEN 3 ELSE 2

\* C13: in every state reached by channel creation, RestoreChannelShells,
\* channel close, MarkChanFullyClosed, PruneLinkNodes, AbandonChannel and
\* Wipe, each channel of the open-channel tree has a link-node record for its
\* remote identity key.
C13_OpenChannelHasLinkNode ==
    \A c \in file.openChans : c.peer \in file.linkNodes

\* PruneLinkNodes ran while a peer had one channel fully closed and another
\* one, restored from a backup, still open: the link node is there.
C13_Witness ==
    /\ last.op = "PruneLinkNodes" /\ last.err = Nil
    /\ \E c \in file.openChans, s \in file.closedChans :
          /\ c.peer = s.peer /\ ~s.pending
          /\ ChanStatusRestored \in c.status
          /\ c.peer \in file.linkNodes

C15_AbandonIdempotent ==
    [][ \A op \in OutPoints, h \in Heights :
          (last'.op = "AbandonChannel" /\ AbandonChannelOp(op, h))
          => IF \E c \in file.openChans : c.op = op
             THEN LET c == CHOOSE c \in file.openChans : c.op = op
                      summary == [op |-> op, peer |-> c.peer,
                                  closeType |-> Abandoned, closeHeight |-> h,
                                  pending |-> FALSE]
                  IN  /\ last'.err = Nil
                      /\ ~\E d \in file'.openChans : d.op = op
                      /\ {s \in file'.closedChans : s.op = op} = {summary}
                      /\ file' = [file EXCEPT
                            !.openChans = {d \in @ : d.op # op},
                            !.closedChans = {s \in @ : s.op # op}
                                            \cup {summary},
                            !.buckets = @ \cup {<<Root, closedChannelBucket>>}]
             ELSE IF HasSummary(file, op)
             THEN last'.err = Nil /\ file' = file
             ELSE /\ last'.err \in {ErrClosedChannelNotFound,
                                    ErrNoActiveChannels}
                  /\ file' = file ]_vars

\* The second of two AbandonChannel calls on the same outpoint: it found no
\* open channel, found the Abandoned summary the first call wrote and
\* succeeded.
C15_Witness ==
    /\ last.op = "AbandonChannel" /\ last.err = Nil
    /\ last.txs = <<"FetchChannel", "FetchClosedChannel">>
    /\ ~\E c \in file.openChans : c.op = 1
    /\ {s \in file.closedChans : s.op = 1}
         = {[op |-> 1, peer |-> PeerOf(1), closeType |-> Abandoned,
             closeHeight |-> MaxHeight, pending |-> FALSE]}

\* AbandonChannel on an outpoint that is neither open nor closed.
C15_NotFound ==
    /\ last.op = "AbandonChannel" /\ last.err = ErrClosedChannelNotFound
    /\ dbOpen /\ file.openChans = {} /\ file.closedChans = {}

\* C16: every public operation does all its reads and writes in one
\* transaction, so that no other caller's commit takes effect between two
\* steps of the operation: while a FetchAllChannels call is under way the
\* file does not change.
C16_OneTransaction == [][ scan.pc # 0 => file' = file ]_vars

\* What the transactions of one FetchAllChannels call can show together: a
\* channel that was in the database all along is listed twice, or not at
\* all.
C16_ListedTwice ==
    /\ last.op = "FetchAllChannels" /\ last.err = Nil
    /\ \E i, j \in 1..Len(last.chans) : i # j /\ last.chans[i].op = last.chans[j].op

C16_NotListed ==
    /\ last.op = "FetchAllChannels" /\ last.err = Nil
    /\ last.chans = <<>>
    /\ file.openChans # {}
    /\ \A c \in file.openChans : ~c.pending /\ c.status = ChanStatusDefault

\* The channels a returned list holds.
Listed(chans) == {chans[i] : i \in 1..Len(chans)}

\* C17: in a quiescent database state the lists returned by
\* FetchAllOpenChannels, FetchPendingChannels and FetchWaitingCloseChannels
\* are pairwise disjoint, each channel of the database is in the list that
\* matches its pending flag and status, and FetchAllChannels returns their
\* union with no channel twice.
C17_FilterDisjoint ==
    LET open == FetchAllOpenChannels(file)
        pending == FetchPendingChannels(file)
        waiting == FetchWaitingCloseChannels(file)
        all == FetchAllChannels(file)
    IN  (dbOpen /\ open.err = Nil)
        => /\ pending.err = Nil /\ waiting.err = Nil /\ all.err = Nil
           /\ Listed(open.chans) \cap Listed(pending.chans) = {}
           /\ Listed(open.chans) \cap Listed(waiting.chans) = {}
           /\ Listed(pending.chans) \cap Listed(waiting.chans) = {}
           /\ Listed(open.chans) =
                 {c \in file.openChans :
                    ~c.pending /\ c.status = ChanStatusDefault}
           /\ Listed(pending.chans) =
                 {c \in file.openChans :
                    c.pending /\ c.status = ChanStatusDefault}
           /\ Listed(waiting.chans) =
                 {c \in file.openChans : c.status # ChanStatusDefault}
           /\ Listed(all.chans) = Listed(open.chans)
                 \cup Listed(pending.chans) \cup Listed(waiting.chans)
           /\ Len(all.chans) = Cardinality(file.openChans)
           /\ \A i, j \in 1..Len(all.chans) :
                 i # j => all.chans[i].op # all.chans[j].op

\* A database with a confirmed channel, a pending one and two that wait for
\* their close, one of them pending.
C17_Witness ==
    /\ dbOpen
    /\ Len(FetchAllOpenChannels(file).chans) = 1
    /\ Len(FetchPendingChannels(file).chans) = 1
    /\ Len(FetchWaitingCloseChannels(file).chans) = 1
    /\ Len(FetchAllChannels(file).chans) = 3

\* Both kinds of waiting-close channel are listed: one pending, one not.
C17_BothWaiting ==
    /\ dbOpen
    /\ \E c, d \in Listed(FetchWaitingCloseChannels(file).chans) :
          c.pending /\ ~d.pending

\* The closed outpoints that derive the channel id.
ClosedWithID(db, cid) == {s \in db.closedChans : IsChanPoint(cid, s.op)}

\* C18 as stated: for every closed outpoint, FetchClosedChannelForID of the
\* channel id derived from it returns what FetchClosedChannel of the outpoint
\* returns, and an id that matches no closed outpoint gives
\* ErrClosedChannelNotFound.
C18_SameSummary ==
    dbOpen =>
      /\ \A s \in file.closedChans :
            FetchClosedChannelForID(file, NewChanIDFromOutPoint(s.op))
              = FetchClosedChannel(file, s.op)
      /\ \A cid \in ChanIDs :
            ClosedWithID(file, cid) = {}
              => FetchClosedChannelForID(file, cid)
                   = [summary |-> <<>>, err |-> ErrClosedChannelNotFound]

\* C18 (amended): for a closed outpoint that is the only closed outpoint
\* deriving its channel id, FetchClosedChannelForID of that id returns what
\* FetchClosedChannel of the outpoint returns; when several closed outpoints
\* derive the id, the summary of the one with the lowest key is returned; an
\* id that matches no closed outpoint gives ErrClosedChannelNotFound.
C18_SameSummaryUnlessShared ==
    dbOpen =>
      /\ \A s \in file.closedChans :
            LET cid == NewChanIDFromOutPoint(s.op)
                same == ClosedWithID(file, cid)
                lowest == CHOOSE t \in same :
                             \A u \in same \ {t} : KeyLess(t.op, u.op)
            IN  /\ FetchClosedChannelForID(file, cid)
                      = FetchClosedChannel(file, lowest.op)
                /\ FetchClosedChannelForID(file, cid).err = Nil
                /\ same = {s} => FetchClosedChannelForID(file, cid).summary = <<s>>
      /\ \A cid \in ChanIDs :
            ClosedWithID(file, cid) = {}
              => FetchClosedChannelForID(file, cid)
                   = [summary |-> <<>>, err |-> ErrClosedChannelNotFound]

\* The lookup passes a closed outpoint of another id and returns the summary
\* of the only closed outpoint of the id asked for, while a third id is not
\* found.
C18_Witness ==
    /\ dbOpen
    /\ \E s, t \in file.closedChans :
          /\ KeyLess(t.op, s.op)
          /\ ~IsChanPoint(NewChanIDFromOutPoint(s.op), t.op)
          /\ ClosedWithID(file, NewChanIDFromOutPoint(s.op)) = {s}
          /\ FetchClosedChannelForID(file, NewChanIDFromOutPoint(s.op))
                = [summary |-> <<s>>, err |-> Nil]
    /\ \E cid \in ChanIDs :
          FetchClosedChannelForID(file, cid).err = ErrClosedChannelNotFound

\* Two closed outpoints derive one channel id and the lookup of the id
\* returns the summary of the lower key for both.
C18_SharedID ==
    /\ dbOpen
    /\ \E s, t \in file.closedChans :
          /\ s # t
          /\ NewChanIDFromOutPoint(s.op) = NewChanIDFromOutPoint(t.op)
          /\ FetchClosedChannelForID(file, NewChanIDFromOutPoint(t.op)).summary
                = <<s>>

\* The edge info stored for a channel id.
EdgeOf(db, chanID) == CHOOSE e \in db.edges : e.ChannelID = chanID

\* C19: after any RestoreChannelShells call, whatever the node's own key and
\* the peers' keys are, every edge info of the edge index has node1 strictly
\* below node2 in the bytewise order of the keys.
C19_CanonicalOrder ==
    last.op = "RestoreChannelShells"
      => \A e \in file.edges :
            bytesCompare(e.NodeKey1Bytes, e.NodeKey2Bytes) = -1

\* The order holds for every edge whose peer is not the node itself, and an
\* edge to the node's own key has node1 = node2.
C19_OrderedUnlessSelf ==
    \A e \in file.edges :
       IF PeerOf(e.ChannelPoint) = file.sourceNode
       THEN e.NodeKey1Bytes = e.NodeKey2Bytes
       ELSE bytesCompare(e.NodeKey1Bytes, e.NodeKey2Bytes) = -1

\* C20: the edge policy RestoreChannelShells writes for a shell has the
\* direction bit set if the node's own key is above the peer's and clear in
\* every other case, and the bit is set exactly when the node is node2 of
\* the edge.
C20_DirectionBit ==
    last.op = "RestoreChannelShells"
      => \A q \in file.policies :
            LET e == EdgeOf(file, q.ChannelID)
                selfPub == file.sourceNode
                peerPub == PeerOf(e.ChannelPoint)
            IN  /\ ChanUpdateDirection \in q.ChannelFlags
                      <=> bytesCompare(selfPub, peerPub) = 1
                /\ ChanUpdateDirection \in q.ChannelFlags
                      <=> e.NodeKey2Bytes = selfPub

\* The bit is set exactly when the node is node2 of the edge, and it differs
\* from "own key above the peer's" only for a shell whose peer is the node.
C20_BitIffNode2 ==
    \A q \in file.policies :
       LET e == EdgeOf(file, q.ChannelID)
           selfPub == file.sourceNode
           peerPub == PeerOf(e.ChannelPoint)
       IN  /\ ChanUpdateDirection \in q.ChannelFlags
                 <=> e.NodeKey2Bytes = selfPub
           /\ selfPub # peerPub
                 => (ChanUpdateDirection \in q.ChannelFlags
                       <=> bytesCompare(selfPub, peerPub) = 1)
           /\ selfPub = peerPub => ChanUpdateDirection \in q.ChannelFlags

\* A restore has written a policy with the bit set and one with it clear.
C20_BothBits ==
    /\ last.op = "RestoreChannelShells" /\ last.err = Nil
    /\ \E q, r \in file.policies :
          /\ ChanUpdateDirection \in q.ChannelFlags
          /\ ChanUpdateDirection \notin r.ChannelFlags

\* C21: RestoreChannelShells is idempotent: a call that repeats the shells
\* of the successful call before it succeeds and leaves the database as that
\* call left it.
C21_RestoreIdempotent ==
    [][ (/\ last.op = "RestoreChannelShells" /\ last.err = Nil
         /\ last'.op = "RestoreChannelShells"
         /\ last'.shells = last.shells)
        => (last'.err = Nil /\ file' = file) ]_vars

\* What a repeated call does keep: the open channels, the link nodes and the
\* edge infos; only the edge policies are written again.
C21_RepeatKeepsChannels ==
    [][ (/\ last.op = "RestoreChannelShells" /\ last.err = Nil
         /\ last'.op = "RestoreChannelShells"
         /\ last'.shells = last.shells)
        => (/\ last'.err = Nil
            /\ file' = [file EXCEPT !.policies = file'.policies]) ]_vars

\* The channel ids of the shells of a backup.
ShellIDs(channelShells) ==
    {ShortChanID(channelShells[i].op) : i \in 1..Len(channelShells)}

\* The four records of a shell are stored.
ShellStored(db, shell) ==
    /\ HasChan(db, shell.peer, shell.op)
    /\ shell.peer \in db.linkNodes
    /\ \E e \in db.edges : e.ChannelID = ShortChanID(shell.op)
    /\ \E q \in db.policies : q.ChannelID = ShortChanID(shell.op)

\* C22: a RestoreChannelShells call that fails stores nothing of any of its
\* shells and removes no entry of the reject cache or of the channel cache;
\* when its transaction commits, the records of every shell are stored and
\* neither cache holds an entry for a restored channel id.
C22_AllOrNothing ==
    [][ (last'.op = "RestoreChannelShells" /\ scan' = scan)
        => IF last'.err # Nil
           THEN /\ file' = file
                /\ rejectCache' = rejectCache
                /\ chanCache' = chanCache
           ELSE /\ \A i \in 1..Len(last'.shells) :
                      ShellStored(file', last'.shells[i])
                /\ rejectCache' \cap ShellIDs(last'.shells) = {}
                /\ chanCache' \cap ShellIDs(last'.shells) = {} ]_vars

\* A restore of two shells has failed while both caches hold an entry for
\* one of its channel ids.
C22_Witness ==
    /\ last.op = "RestoreChannelShells"
    /\ last.err # Nil
    /\ Len(last.shells) = 2
    /\ \E id \in ShellIDs(last.shells) : id \in rejectCache /\ id \in chanCache

\* A restore of two shells has committed and the records of both are stored.
C22_Committed ==
    /\ last.op = "RestoreChannelShells"
    /\ last.err = Nil
    /\ Len(last.shells) = 2
    /\ \A i \in 1..2 : ShellStored(file, last.shells[i])

\* The channels of the open-channel tree funded by the outpoint.
StoredAt(db, chanPoint) == {c \in db.openChans : c.op = chanPoint}

\* C23 as stated: in every state of an open database, Wipe included,
\* FetchChannel returns ErrChannelNotFound for an outpoint that funds no
\* stored channel and returns the channel for one that does.
C23_FetchChannel ==
    dbOpen =>
      \A chanPoint \in OutPoints :
         IF StoredAt(file, chanPoint) = {}
         THEN FetchChannel(file, chanPoint)
                = [chan |-> <<>>, err |-> ErrChannelNotFound]
         ELSE /\ FetchChannel(file, chanPoint).err = Nil
              /\ FetchChannel(file, chanPoint).chan[1]
                    \in StoredAt(file, chanPoint)

\* C23 (amended): FetchChannel returns the channel for an outpoint that
\* funds a stored channel; for one that funds none it returns
\* ErrChannelNotFound while the open-channel bucket exists and
\* ErrNoActiveChannels while that bucket is missing, as it is after Wipe.
C23_FetchChannelOrNoBucket ==
    dbOpen =>
      \A chanPoint \in OutPoints :
         IF StoredAt(file, chanPoint) = {}
         THEN FetchChannel(file, chanPoint)
                = [chan |-> <<>>,
                   err |-> IF HasBucket(file, Root, openChannelBucket)
                           THEN ErrChannelNotFound
                           ELSE ErrNoActiveChannels]
         ELSE /\ FetchChannel(file, chanPoint).err = Nil
              /\ FetchChannel(file, chanPoint).chan[1]
                    \in StoredAt(file, chanPoint)

\* Channels of two peers are stored, the second peer's channel is found and
\* an outpoint that funds none is not.
C23_Witness ==
    /\ dbOpen
    /\ \E c, d \in file.openChans :
          /\ c.peer < d.peer
          /\ FetchChannel(file, d.op) = [chan |-> <<d>>, err |-> Nil]
    /\ \E chanPoint \in OutPoints :
          FetchChannel(file, chanPoint).err = ErrChannelNotFound

\* After a Wipe the lookup fails with ErrNoActiveChannels.
C23_AfterWipe ==
    /\ dbOpen
    /\ last.op = "Wipe"
    /\ \E chanPoint \in OutPoints :
          FetchChannel(file, chanPoint).err = ErrNoActiveChannels

C24_Kept ==
    /\ last.op = "PruneLinkNodes" /\ last.err = Nil
    /\ \E c \in file.openChans : c.peer \in file.linkNodes

\* PruneLinkNodes has failed.
C24_Failed ==
    last.op = "PruneLinkNodes" /\ last.err # Nil

\* C25: FetchClosedChannelForID decodes only keys whose first 30 bytes are
\* not above the 30-byte prefix of the channel id: it stops at the first key
\* with a greater prefix.
C25_StopsAfterPrefix ==
    dbOpen =>
      \A cid \in ChanIDs :
         \A i \in 1..Len(DecodedKeys(file, cid)) :
            HashPrefix(DecodedKeys(file, cid)[i]) <= cid.prefix

\* The lookup of an id below every key decodes every key of the bucket.
C25_DecodesAll ==
    /\ dbOpen
    /\ Cardinality(file.closedChans) >= 2
    /\ \E cid \in ChanIDs :
          /\ \A s \in file.closedChans : cid.prefix < HashPrefix(s.op)
          /\ Len(DecodedKeys(file, cid)) = Cardinality(file.closedChans)

\* The seek does skip the keys below the prefix of the id.
C25_SeekSkipsLower ==
    dbOpen =>
      \A cid \in ChanIDs :
         \A i \in 1..Len(DecodedKeys(file, cid)) :
            HashPrefix(DecodedKeys(file, cid)[i]) >= cid.prefix

\* The channel ids a restore has committed and not yet removed from the
\* caches.
Uninvalidated ==
    IF restore.pc = 2
    THEN {restore.chansRestored[i] : i \in 1..Len(restore.chansRestored)}
    ELSE {}

\* C26: RestoreChannelShells holds cacheMu from before its transaction until
\* after the cache removals, so no query that takes cacheMu answers from a
\* cache entry of a channel id whose restore has committed and whose entry
\* is not yet removed; a query runs before the lock is taken or after the
\* removals.
C26_NoStaleCacheHit ==
    [][ (last'.op = "CacheHit" /\ restore' = restore)
        => /\ last'.node \notin Uninvalidated
           /\ restore.pc = 0 ]_vars

\* A query answers from a cache entry of a channel whose restore is
\* complete: the entry was made after the restore removed the old one.
C26_Witness ==
    /\ last.op = "CacheHit"
    /\ restore.pc = 0
    /\ \E q \in file.policies : q.ChannelID = last.node

\* The restore has committed while a cache still holds an entry of a
\* restored channel id; the lock is held.
C26_Window ==
    /\ restore.pc = 2
    /\ restore.locked
    /\ Uninvalidated \cap rejectCache \cap chanCache # {}

\* C27: the LastUpdate of the policies RestoreChannelShells writes does not
\* depend on the wall-clock time: two runs of its transaction on the same
\* database with the same shells, which share the database's injected clock
\* and differ in the wall-clock time only, store the same policies.
C27_InjectedClock ==
    dbOpen =>
      \A channelShells \in Backups : \A wall1, wall2 \in Times :
         RestoreChannelShellsTx(file, channelShells, 1, wall1, <<>>).db.policies
           = RestoreChannelShellsTx(file, channelShells, 1, wall2, <<>>).db.policies

\* A restore has stored a policy whose LastUpdate is the wall-clock time of
\* the call.
C27_WallClockStored ==
    /\ last.op = "RestoreChannelShells" /\ last.err = Nil
    /\ \E q \in file.policies : q.LastUpdate = MaxTime

\* How often the list holds a channel of the outpoint.
TimesListed(chans, op) == Cardinality({i \in 1..Len(chans) : chans[i].op = op})

\* C28: while a writer changes pending flags and status bits between the
\* reads, a FetchAllChannels call returns every channel that is in the
\* open-channel tree during the whole call exactly once.
C28_EachChannelOnce ==
    [][ (/\ scan.pc = Len(ScanSteps) - 1
         /\ scan'.pc = 0
         /\ last'.op = "FetchAllChannels"
         /\ last'.err = Nil)
        => \A op \in scan.present \cap {c.op : c \in file.openChans} :
              TimesListed(last'.chans, op) = 1 ]_vars

\* Without a write between its transactions a call lists each channel once.
C28_QuietScan ==
    /\ last.op = "FetchAllChannels" /\ last.err = Nil
    /\ file.openChans # {}
    /\ \A c \in file.openChans : TimesListed(last.chans, c.op) = 1

\* C29 as stated: in every state of an open database, after Wipe and after a
\* new Open too, FetchAllChannels returns an empty list and no error when
\* no open channel is stored.
C29_EmptyStoreNoError ==
    (dbOpen /\ file.openChans = {})
      => FetchAllChannels(file) = [chans |-> <<>>, err |-> Nil]

\* C29 (amended): when no open channel is stored, FetchAllChannels returns an
\* empty list and no error while the open-channel bucket and the node-info
\* bucket exist, and fails with ErrNoActiveChannels while the open-channel
\* bucket is missing, as it is after Wipe and after a new Open of the wiped
\* file.
C29_EmptyStoreOrNoBucket ==
    (dbOpen /\ file.openChans = {})
      => FetchAllChannels(file) =
           [chans |-> <<>>,
            err |-> IF ~HasBucket(file, Root, openChannelBucket)
                    THEN ErrNoActiveChannels
                    ELSE IF ~HasBucket(file, Root, nodeInfoBucket)
                    THEN ErrNodeBucketNotCreated
                    ELSE Nil]

\* Every channel of the store has been closed and FetchAllChannels returns
\* the empty list with no error.
C29_Witness ==
    /\ dbOpen
    /\ file.openChans = {}
    /\ file.closedChans # {}
    /\ FetchAllChannels(file) = [chans |-> <<>>, err |-> Nil]

\* The wiped file has been opened again and FetchAllChannels fails.
C29_WipedReopened ==
    /\ dbOpen
    /\ last.op = "Open"
    /\ FetchAllChannels(file).err = ErrNoActiveChannels

====
